---- MODULE Spec2Model ----
(***************************************************************************)
(* Model of generate_inputs.py, the input generator for the Shortest       *)
(* Superstring Problem: generate_overlapping_strings, the permutation      *)
(* generator, write_input_file and main.                                   *)
(*                                                                         *)
(* A string is a sequence of character codes ('A' = 65, '0' = 48), so that *)
(* Python's string comparison is the lexicographic order on code points.   *)
(* A file is a sequence of newline-terminated lines.  Probabilities and    *)
(* the values of random.random() are in hundredths.                        *)
(***************************************************************************)
EXTENDS Integers, Sequences, FiniteSets, TLC

VARIABLES run, twin

vars == <<run, twin>>

(* ------------------------------ bounds --------------------------------- *)

\* Largest prefix of the 26-letter alphabet the generator draws from.
AlphaSize == 2
\* Largest max_len the generator is called with.
MaxLen == 7
\* Largest n the generator is called with.
MaxN == 4
\* A call is explored when the accumulator has at most this many values.
MaxSets == 140
\* Letters and length of the base strings of the permutation generator.
PermAlpha == 3
MaxBaseLen == 4
\* Strings handed to write_input_file on its own, and lines of prior content.
MaxWrite == 3

(* -------------------------- program constants -------------------------- *)

OrdA == 65
OrdZero == 48
MinOverlap == 2
MaxOverlap == 5
MinOverlapLen == 3

(* ------------------------------ strings -------------------------------- *)

Min(a, b) == IF a < b THEN a ELSE b

Max(a, b) == IF a < b THEN b ELSE a

Range(s) == {s[i] : i \in 1..Len(s)}

Reverse(s) == [i \in 1..Len(s) |-> s[Len(s) + 1 - i]]

RECURSIVE Concat(_)
Concat(ss) == IF ss = <<>> THEN <<>> ELSE ss[1] \o Concat(Tail(ss))

\* The first a letters of 'ABCDEFGHIJKLMNOPQRSTUVWXYZ'.
Alphabet(a) == OrdA..(OrdA + a - 1)

\* random.choices(population, k=k): k independent picks, and the empty list
\* when k is zero or negative.
Choices(population, k) == IF k <= 0 THEN {<<>>} ELSE [1..k -> population]

\* s[-k:] for 1 <= k.
Suffix(s, k) == SubSeq(s, Max(1, Len(s) - k + 1), Len(s))

Prefix(s, k) == SubSeq(s, 1, Min(k, Len(s)))

\* Python's a < b on strings.
RECURSIVE StrLessFrom(_, _, _)
StrLessFrom(a, b, i) ==
    IF i > Len(b) THEN FALSE
    ELSE IF i > Len(a) THEN TRUE
    ELSE IF a[i] # b[i] THEN a[i] < b[i]
    ELSE StrLessFrom(a, b, i + 1)

StrLess(a, b) == StrLessFrom(a, b, 1)

\* sorted(list): the list rearranged into ascending order.
Below(s, p) == SelectSeq(s, LAMBDA e : StrLess(e, p))

Above(s, p) == SelectSeq(s, LAMBDA e : StrLess(p, e))

Same(s, p) == SelectSeq(s, LAMBDA e : e = p)

RECURSIVE SortList(_)
SortList(s) ==
    IF Len(s) <= 1 THEN s
    ELSE LET p == s[(Len(s) + 1) \div 2]
         IN SortList(Below(s, p)) \o Same(s, p) \o SortList(Above(s, p))

UnsortedList(s) == s

SortedDescending(s) == Reverse(SortList(s))

sorted(s) == SortList(s)

\* sorted(...) as generate_permutation_strings calls it.
sorted_perms(s) == SortList(s)

\* The order in which Python iterates over a set of strings.  It depends on
\* the strings' hashes, which differ from one process to the next (hash
\* randomisation): h selects one of the orders a process may see.  The
\* elements are grouped by their characters from the last one backwards,
\* in slot order (h = 0) or in the reverse slot order (h = 1).
HashSeeds == {0, 1}

Codes == [i \in 1..26 |-> OrdA + i - 1]

RECURSIVE SlotOrder(_, _)
SlotOrder(S, d) ==
    IF S = {} THEN <<>>
    ELSE IF Cardinality(S) = 1 THEN <<CHOOSE e \in S : TRUE>>
    ELSE LET short == {e \in S : Len(e) < d}
             long == S \ short
             present == {e[Len(e) + 1 - d] : e \in long}
             used(ch) == ch \in present
             slots == SelectSeq(Codes, used)
             bucket(ch) == {e \in long : e[Len(e) + 1 - d] = ch}
         IN SlotOrder(short, d + 1)
              \o Concat([i \in 1..Len(slots) |-> SlotOrder(bucket(slots[i]), d + 1)])

SetIter(S, h) == IF h = 0 THEN SlotOrder(S, 1) ELSE Reverse(SlotOrder(S, 1))

\* str(k) for k >= 0: the decimal digits of k.
RECURSIVE Decimal(_)
Decimal(k) ==
    IF k < 10 THEN <<OrdZero + k>>
    ELSE Append(Decimal(k \div 10), OrdZero + (k % 10))

\* int(line): the number a line of decimal digits denotes, -1 if it is none.
RECURSIVE ParseDecimal(_)
ParseDecimal(line) ==
    IF line = <<>> \/ \E i \in 1..Len(line) : line[i] \notin OrdZero..(OrdZero + 9) THEN -1
    ELSE IF Len(line) = 1 THEN line[1] - OrdZero
    ELSE 10 * ParseDecimal(SubSeq(line, 1, Len(line) - 1)) + (line[Len(line)] - OrdZero)

(* --------------------------- the process state ------------------------- *)

FileNames ==
    {"input_tiny.txt", "input_small.txt", "input_medium.txt",
     "input_large.txt", "input_xlarge.txt", "input_perm720.txt", "out.txt"}

NoFile == [exists |-> FALSE, lines |-> <<>>]

\* The state of a process that has not started: no file exists, nothing is
\* printed, no local variable is bound.
Fresh ==
    [pc |-> "start", seeded |-> FALSE, fixture |-> 0,
     alphabet |-> {}, n |-> 0, min_len |-> 0, max_len |-> 0, overlap_prob |-> 0,
     strings |-> {}, current |-> <<>>,
     branch |-> "none", overlap_size |-> 0, new_len |-> 0, new_string |-> <<>>,
     base_string |-> <<>>, ret |-> <<>>, filename |-> "out.txt",
     files |-> [f \in FileNames |-> NoFile], console |-> <<>>]

(* ------------------- generate_overlapping_strings ---------------------- *)

\* The values random.random() is drawn from, in hundredths: one below every
\* positive probability, one between any two thresholds main uses, and one
\* above them all.  random.random() is never 1.0.
RandomVals == {0, 50, 65, 75, 99}

\* randint(2, min(5, len(current) - 1)): the values it can return.
OverlapSizesUncapped(cur) == MinOverlap..(Len(cur) - 1)

OverlapSizes(cur) == MinOverlap..Min(MaxOverlap, Len(cur) - 1)

\* randint(min_len, max_len).
Lengths(s) == s.min_len..s.max_len

\* The frame of a call generate_overlapping_strings(n, min_len, max_len,
\* overlap_prob) made by process state s: the arguments are bound and no
\* local variable is.
CallGenerate(s, a, n, lo, hi, prob) ==
    [s EXCEPT !.pc = "gen_first", !.alphabet = Alphabet(a), !.n = n,
              !.min_len = lo, !.max_len = hi, !.overlap_prob = prob,
              !.strings = {}, !.current = <<>>, !.branch = "none",
              !.overlap_size = 0, !.new_len = 0, !.new_string = <<>>,
              !.ret = <<>>]

\* Lines 21-26: the accumulator is created and the first string drawn.
DoFirst(s, w) ==
    [s EXCEPT !.strings = {w}, !.current = w, !.pc = "loop"]

\* Line 42: the acceptance test.
Accepts(s, w) == w \notin s.strings /\ Len(w) >= s.min_len

\* Lines 42-44: the candidate is added and becomes current, or is dropped.
Decide(s, w) ==
    IF Accepts(s, w)
    THEN [s EXCEPT !.strings = @ \cup {w}, !.current = w, !.new_string = w]
    ELSE [s EXCEPT !.new_string = w]

\* Line 30: the test that selects the overlap branch, for a value r of
\* random.random().
TakesOverlapAnyLength(s, r) == r < s.overlap_prob

TakesOverlap(s, r) == r < s.overlap_prob /\ Len(s.current) >= MinOverlapLen

\* Line 35: the length of the random rest of an overlap candidate.
RestLenFull(len, k) == len

RestLen(len, k) == len - k

\* Lines 32-36 and 42-44: one iteration through the overlap branch, with
\* overlap size k, length len and the random characters rest.
DoOverlap(s, k, len, rest) ==
    Decide([s EXCEPT !.branch = "overlap", !.overlap_size = k, !.new_len = len],
           Suffix(s.current, k) \o rest)

\* Lines 39-40 and 42-44: one iteration through the random branch.
DoRandom(s, len, w) ==
    Decide([s EXCEPT !.branch = "random", !.new_len = len], w)

\* randint(a, b) with b < a raises ValueError, which nothing catches.
Raise(s) == [s EXCEPT !.pc = "error"]

\* Line 29: the loop condition.
LoopContinuesOneMore(s) == Cardinality(s.strings) <= s.n

LoopContinues(s) == Cardinality(s.strings) < s.n

\* Line 46: the sorted list of the accumulator, iterated in hash order h.
DoReturn(s, h) ==
    [s EXCEPT !.ret = sorted(SetIter(s.strings, h)), !.pc = "gen_done"]

(* ----------------------- generate_permutation_strings ------------------ *)

RemoveAt(s, i) == SubSeq(s, 1, i - 1) \o SubSeq(s, i + 1, Len(s))

\* itertools.permutations(pool): every ordering of the positions of pool,
\* in lexicographic order of the positions; equal characters at different
\* positions give equal tuples more than once.
RECURSIVE permutations(_)
permutations(pool) ==
    IF pool = <<>> THEN << <<>> >>
    ELSE Concat([i \in 1..Len(pool) |->
            LET sub == permutations(RemoveAt(pool, i))
            IN [j \in 1..Len(sub) |-> <<pool[i]>> \o sub[j]]])

\* set([...]) at line 54, iterated in hash order h.
KeepDuplicates(list, h) == list

SetOfList(list, h) == SetIter(Range(list), h)

\* Lines 53-55.
generate_permutation_strings(base_string, h) ==
    sorted_perms(SetOfList(permutations(base_string), h))

DoPermutations(s, h) ==
    [s EXCEPT !.ret = generate_permutation_strings(s.base_string, h),
              !.pc = "perm_done"]

(* --------------------------- write_input_file -------------------------- *)

\* open(filename, 'w'): the file is created, or truncated if it exists.
OpenForAppending(file) == [exists |-> TRUE, lines |-> file.lines]

OpenForWriting(file) == [exists |-> TRUE, lines |-> <<>>]

\* f.write(f"{text}\n"): one more line at the end of the file.
WriteLine(file, text) == [file EXCEPT !.lines = Append(@, text)]

\* Lines 61-62: the strings, one line each, in the order of the list.
WriteStrings(file, strings) == [file EXCEPT !.lines = @ \o strings]

\* Lines 59-63: the file written and the notice printed.
write_input_file(s, strings, filename) ==
    [s EXCEPT
       !.files[filename] =
           WriteStrings(WriteLine(OpenForWriting(@), Decimal(Len(strings))), strings),
       !.console = Append(@, [filename |-> filename, count |-> Len(strings)])]

(* --------------------------------- main -------------------------------- *)

Str(s) == [i \in 1..Len(s) |-> OrdA + s[i] - 1]

\* Line 70: ["ABC", "BCD", "CDE", "DEF"].
Tiny == <<Str(<<1, 2, 3>>), Str(<<2, 3, 4>>), Str(<<3, 4, 5>>), Str(<<4, 5, 6>>)>>

\* Line 95: "ABCDEF".
PermBase == Str(<<1, 2, 3, 4, 5, 6>>)

\* Lines 75-91: the four generated fixtures, in the order main produces
\* them, called with the probabilities of the source and with the counts,
\* the lengths and the alphabet scaled down.
FixturesSwapped ==
    <<[filename |-> "input_medium.txt", alpha |-> 2, n |-> 4, min_len |-> 2, max_len |-> 2, overlap_prob |-> 70],
      [filename |-> "input_small.txt", alpha |-> 2, n |-> 2, min_len |-> 1, max_len |-> 2, overlap_prob |-> 60],
      [filename |-> "input_large.txt", alpha |-> 1, n |-> 2, min_len |-> 3, max_len |-> 4, overlap_prob |-> 70],
      [filename |-> "input_xlarge.txt", alpha |-> 2, n |-> 3, min_len |-> 2, max_len |-> 2, overlap_prob |-> 80]>>

Fixtures ==
    <<[filename |-> "input_small.txt", alpha |-> 2, n |-> 2, min_len |-> 1, max_len |-> 2, overlap_prob |-> 60],
      [filename |-> "input_medium.txt", alpha |-> 2, n |-> 4, min_len |-> 2, max_len |-> 2, overlap_prob |-> 70],
      [filename |-> "input_large.txt", alpha |-> 1, n |-> 2, min_len |-> 3, max_len |-> 4, overlap_prob |-> 70],
      [filename |-> "input_xlarge.txt", alpha |-> 2, n |-> 3, min_len |-> 2, max_len |-> 2, overlap_prob |-> 80]>>

\* The callee's frame is gone once its caller has used the returned list:
\* the arguments and the local variables are unbound again.
Returned(s) ==
    [s EXCEPT !.alphabet = {}, !.n = 0, !.min_len = 0, !.max_len = 0,
              !.overlap_prob = 0, !.strings = {}, !.current = <<>>,
              !.branch = "none", !.overlap_size = 0, !.new_len = 0,
              !.new_string = <<>>, !.base_string = <<>>, !.ret = <<>>]

\* Line 100: random.seed(42).
DoSeed(s) == [s EXCEPT !.seeded = TRUE, !.pc = "tiny"]

\* Lines 70-71.
DoTiny(s) ==
    [write_input_file(s, Tiny, "input_tiny.txt") EXCEPT !.pc = "call", !.fixture = 1]

\* Lines 75, 80, 85, 90: the call of the generator for the next fixture.
DoCall(s) ==
    LET fx == Fixtures[s.fixture]
    IN CallGenerate(s, fx.alpha, fx.n, fx.min_len, fx.max_len, fx.overlap_prob)

\* Lines 76, 81, 86, 91: the returned list is written.
DoWriteGenerated(s) ==
    [Returned(write_input_file(s, s.ret, Fixtures[s.fixture].filename))
       EXCEPT !.fixture = @ + 1,
              !.pc = IF s.fixture < Len(Fixtures) THEN "call" ELSE "perm_call"]

\* Line 95: the call generate_permutation_strings("ABCDEF").
DoPermCall(s) == [s EXCEPT !.base_string = PermBase, !.pc = "perm"]

\* Line 96.
DoWritePerm(s) ==
    [Returned(write_input_file(s, s.ret, "input_perm720.txt")) EXCEPT !.pc = "exit"]

(* ------------------- the generator called on its own ------------------- *)

RECURSIVE Pow(_, _)
Pow(a, k) == IF k = 0 THEN 1 ELSE a * Pow(a, k - 1)

\* The number of strings over a letters with a length in lo..hi.
RECURSIVE NumStrings(_, _, _)
NumStrings(a, lo, hi) == IF lo > hi THEN 0 ELSE Pow(a, lo) + NumStrings(a, lo + 1, hi)

\* The number of sets of k out of u values; once a count exceeds MaxSets
\* the larger counts are not computed.
RECURSIVE Binomial(_, _)
Binomial(u, k) ==
    IF k = 0 THEN 1
    ELSE LET prev == Binomial(u, k - 1)
         IN IF prev > MaxSets THEN prev ELSE (prev * (u - k + 1)) \div k

\* The number of sets of at most n out of u values.
RECURSIVE SubsetsUpTo(_, _)
SubsetsUpTo(u, n) == IF n = 0 THEN 1 ELSE Binomial(u, n) + SubsetsUpTo(u, n - 1)

Probs == {0, 70, 100}

\* The calls explored: n >= 1, 1 <= min_len <= max_len, overlap_prob in
\* [0, 1], with few enough accumulator values to enumerate them all.
GenConfigs ==
    {c \in [alpha : 1..AlphaSize, n : 1..MaxN, min_len : 1..MaxLen,
            max_len : 1..MaxLen, overlap_prob : Probs] :
        /\ c.min_len <= c.max_len
        /\ SubsetsUpTo(NumStrings(c.alpha, c.min_len, c.max_len), c.n) <= MaxSets}

InitGen ==
    /\ run \in {CallGenerate(Fresh, c.alpha, c.n, c.min_len, c.max_len, c.overlap_prob) :
                  c \in GenConfigs}
    /\ twin = Fresh

GenFirst ==
    /\ run.pc = "gen_first"
    /\ IF Lengths(run) = {}
       THEN run' = Raise(run)
       ELSE \E len \in Lengths(run) : \E w \in Choices(run.alphabet, len) :
              run' = DoFirst(run, w)
    /\ UNCHANGED twin

GenOverlap ==
    /\ run.pc = "loop"
    /\ LoopContinues(run)
    /\ \E r \in RandomVals : TakesOverlap(run, r)
    /\ IF OverlapSizes(run.current) = {} \/ Lengths(run) = {}
       THEN run' = Raise(run)
       ELSE \E k \in OverlapSizes(run.current) : \E len \in Lengths(run) :
              \E rest \in Choices(run.alphabet, RestLen(len, k)) :
                run' = DoOverlap(run, k, len, rest)
    /\ UNCHANGED twin

GenRandom ==
    /\ run.pc = "loop"
    /\ LoopContinues(run)
    /\ \E r \in RandomVals : ~TakesOverlap(run, r)
    /\ IF Lengths(run) = {}
       THEN run' = Raise(run)
       ELSE \E len \in Lengths(run) : \E w \in Choices(run.alphabet, len) :
              run' = DoRandom(run, len, w)
    /\ UNCHANGED twin

GenReturn ==
    /\ run.pc = "loop"
    /\ ~LoopContinues(run)
    /\ \E h \in HashSeeds : run' = DoReturn(run, h)
    /\ UNCHANGED twin

NextGen == GenFirst \/ GenOverlap \/ GenRandom \/ GenReturn

Spec == InitGen /\ [][NextGen]_vars

(* -------------- the permutation generator called on its own ------------ *)

\* The base strings explored: every string of at most MaxBaseLen of the
\* first PermAlpha letters, and the base string main uses.
PermBases ==
    UNION {[1..m -> Alphabet(PermAlpha)] : m \in 0..MaxBaseLen} \cup {PermBase}

InitPerm ==
    /\ run \in {[Fresh EXCEPT !.pc = "perm", !.base_string = b] : b \in PermBases}
    /\ twin = Fresh

PermGenerate ==
    /\ run.pc = "perm"
    /\ \E h \in HashSeeds : run' = DoPermutations(run, h)
    /\ UNCHANGED twin

SpecPerm == InitPerm /\ [][PermGenerate]_vars

(* ------------------ write_input_file called on its own ----------------- *)

ListsUpTo(S, m) == UNION {[1..k -> S] : k \in 0..m}

\* The lists written: any order, duplicates included.
WriteLists ==
    ListsUpTo({Str(<<1>>), Str(<<2>>), Str(<<1, 2>>)}, MaxWrite)
      \cup {[i \in 1..(9 + MaxWrite) |-> Str(<<i>>)]}

\* What the file holds before: nothing (no file), or some lines.
PriorFiles ==
    {NoFile} \cup
    {[exists |-> TRUE, lines |-> l] :
        l \in ListsUpTo({Decimal(7), Str(<<26>>)}, MaxWrite)}

\* twin keeps the process state in which write_input_file was called.
InitWrite ==
    /\ run \in {[Fresh EXCEPT !.pc = "write", !.ret = l, !.files["out.txt"] = f] :
                  l \in WriteLists, f \in PriorFiles}
    /\ twin = run

WriteFile ==
    /\ run.pc = "write"
    /\ run' = [write_input_file(run, run.ret, run.filename) EXCEPT !.pc = "written"]
    /\ UNCHANGED twin

SpecWrite == InitWrite /\ [][WriteFile]_vars

(* ------------------------------ one run -------------------------------- *)

\* The working directory before the run: empty, or holding older files.
OldFile == [exists |-> TRUE, lines |-> <<Decimal(2), Str(<<26>>), Str(<<25>>), Str(<<24>>)>>]

InitialFiles == {[f \in FileNames |-> NoFile], [f \in FileNames |-> OldFile]}

InitMain ==
    /\ run \in {[Fresh EXCEPT !.files = fs] : fs \in InitialFiles}
    /\ twin = Fresh

Seed ==
    /\ run.pc = "start"
    /\ run' = DoSeed(run)
    /\ UNCHANGED twin

MainTiny ==
    /\ run.pc = "tiny"
    /\ run' = DoTiny(run)
    /\ UNCHANGED twin

MainCall ==
    /\ run.pc = "call"
    /\ run' = DoCall(run)
    /\ UNCHANGED twin

MainWriteGenerated ==
    /\ run.pc = "gen_done"
    /\ run' = DoWriteGenerated(run)
    /\ UNCHANGED twin

MainPermCall ==
    /\ run.pc = "perm_call"
    /\ run' = DoPermCall(run)
    /\ UNCHANGED twin

MainWritePerm ==
    /\ run.pc = "perm_done"
    /\ run' = DoWritePerm(run)
    /\ UNCHANGED twin

NextMain ==
    \/ Seed \/ MainTiny \/ MainCall
    \/ GenFirst \/ GenOverlap \/ GenRandom \/ GenReturn
    \/ MainWriteGenerated \/ MainPermCall \/ PermGenerate \/ MainWritePerm

SpecMain == InitMain /\ [][NextMain]_vars

(* ------------------- two runs on the same random stream ---------------- *)

\* run and twin are two processes started with random.seed(42): every call
\* of the random module returns the same value in both.  Hash randomisation
\* is not governed by that seed, so each process iterates over its sets in
\* an order of its own, and each starts in a directory of its own.
InitDet ==
    /\ run = Fresh
    /\ twin \in {[Fresh EXCEPT !.files = fs] : fs \in InitialFiles}

BothAt(pc) == run.pc = pc /\ twin.pc = pc

DetSeed == BothAt("start") /\ run' = DoSeed(run) /\ twin' = DoSeed(twin)

DetTiny == BothAt("tiny") /\ run' = DoTiny(run) /\ twin' = DoTiny(twin)

DetCall == BothAt("call") /\ run' = DoCall(run) /\ twin' = DoCall(twin)

DetFirst ==
    /\ BothAt("gen_first")
    /\ IF Lengths(run) = {}
       THEN run' = Raise(run) /\ twin' = Raise(twin)
       ELSE \E len \in Lengths(run) : \E w \in Choices(run.alphabet, len) :
              run' = DoFirst(run, w) /\ twin' = DoFirst(twin, w)

DetOverlap ==
    /\ BothAt("loop")
    /\ LoopContinues(run) /\ LoopContinues(twin)
    /\ \E r \in RandomVals : TakesOverlap(run, r) /\ TakesOverlap(twin, r)
    /\ IF OverlapSizes(run.current) = {} \/ Lengths(run) = {}
       THEN run' = Raise(run) /\ twin' = Raise(twin)
       ELSE \E k \in OverlapSizes(run.current) : \E len \in Lengths(run) :
              \E rest \in Choices(run.alphabet, RestLen(len, k)) :
                run' = DoOverlap(run, k, len, rest) /\ twin' = DoOverlap(twin, k, len, rest)

DetRandom ==
    /\ BothAt("loop")
    /\ LoopContinues(run) /\ LoopContinues(twin)
    /\ \E r \in RandomVals : ~TakesOverlap(run, r) /\ ~TakesOverlap(twin, r)
    /\ IF Lengths(run) = {}
       THEN run' = Raise(run) /\ twin' = Raise(twin)
       ELSE \E len \in Lengths(run) : \E w \in Choices(run.alphabet, len) :
              run' = DoRandom(run, len, w) /\ twin' = DoRandom(twin, len, w)

DetReturn ==
    /\ BothAt("loop")
    /\ ~LoopContinues(run) /\ ~LoopContinues(twin)
    /\ \E h1 \in HashSeeds : run' = DoReturn(run, h1)
    /\ \E h2 \in HashSeeds : twin' = DoReturn(twin, h2)

DetWriteGenerated ==
    BothAt("gen_done") /\ run' = DoWriteGenerated(run) /\ twin' = DoWriteGenerated(twin)

DetPermCall ==
    BothAt("perm_call") /\ run' = DoPermCall(run) /\ twin' = DoPermCall(twin)

DetPermGenerate ==
    /\ BothAt("perm")
    /\ \E h1 \in HashSeeds : run' = DoPermutations(run, h1)
    /\ \E h2 \in HashSeeds : twin' = DoPermutations(twin, h2)

DetWritePerm ==
    BothAt("perm_done") /\ run' = DoWritePerm(run) /\ twin' = DoWritePerm(twin)

NextDet ==
    \/ DetSeed \/ DetTiny \/ DetCall
    \/ DetFirst \/ DetOverlap \/ DetRandom \/ DetReturn
    \/ DetWriteGenerated \/ DetPermCall \/ DetPermGenerate \/ DetWritePerm

SpecDet == InitDet /\ [][NextDet]_vars

(* ============================== properties ============================= *)

Ascending(list) == \A i \in 1..(Len(list) - 1) : StrLess(list[i], list[i + 1])

NoTwoEqual(list) == \A i, j \in 1..Len(list) : i # j => list[i] # list[j]

\* The number of distinct strings the generator can produce in this call.
Feasible(s) == NumStrings(Cardinality(s.alphabet), s.min_len, s.max_len)

\* C1: a call of generate_overlapping_strings that returns, returns exactly
\* n strings, no two of them equal, in strictly ascending order.
C1_ReturnsNSortedUnique ==
    run.pc = "gen_done" =>
        /\ Len(run.ret) = run.n
        /\ NoTwoEqual(run.ret)
        /\ Ascending(run.ret)

C1_Witness ==
    /\ run.pc = "gen_done"
    /\ Len(run.ret) >= 3
    /\ \E i, j \in 1..Len(run.ret) : Len(run.ret[i]) # Len(run.ret[j])

\* C2: in every state of generate_overlapping_strings every string of the
\* accumulator, and the candidate of the last iteration, has a length
\* within [min_len, max_len], also when the overlap branch drew a new_len
\* smaller than the overlap size.
C2_LengthsWithinBounds ==
    run.pc \in {"loop", "gen_done"} =>
        /\ \A w \in run.strings : Len(w) \in run.min_len..run.max_len
        /\ run.branch # "none" => Len(run.new_string) \in run.min_len..run.max_len

\* An overlap candidate with new_len < overlap_size was accepted: it is
\* current, and shorter than the string it was cut from.
C2_Witness ==
    /\ run.pc = "loop"
    /\ run.branch = "overlap"
    /\ run.new_len < run.overlap_size
    /\ run.new_string = run.current
    /\ Len(run.new_string) = run.overlap_size
    /\ Cardinality(run.strings) >= 2

\* What write_input_file(strings, filename) is to leave in the file: the
\* decimal count, then the strings, one per line, in the order given.
Expected(strings) == <<Decimal(Len(strings))>> \o strings

\* C3: after write_input_file(strings, filename), whatever the file held
\* before, the file holds the decimal count on line 1 and then the strings
\* in the order given, line 1 parses to the number of lines after it, and
\* nothing of the prior content and nothing else is in the file.
C3_FileIsCountThenStrings ==
    run.pc = "written" =>
        LET f == run.files[run.filename]
        IN /\ f.exists
           /\ f.lines = Expected(twin.ret)
           /\ ParseDecimal(f.lines[1]) = Len(twin.ret)
           /\ ParseDecimal(f.lines[1]) = Len(f.lines) - 1
           /\ \A i \in 1..Len(twin.ret) : f.lines[i + 1] = twin.ret[i]
           /\ \A g \in FileNames \ {run.filename} : run.files[g] = twin.files[g]

\* The file held lines before the call, and an unsorted list with a
\* repeated string was written over them.
C3_Witness ==
    /\ run.pc = "written"
    /\ Len(twin.files[run.filename].lines) >= 2
    /\ Len(twin.ret) >= 3
    /\ ~Ascending(twin.ret)
    /\ ~NoTwoEqual(twin.ret)
    /\ Len(run.files[run.filename].lines) = Len(twin.ret) + 1

\* The names of the files whose notice has been printed.
Written(s) == [i \in 1..Len(s.console) |-> s.console[i].filename]

\* C4: in each of the six files main produces the strings on the lines
\* after the count are in strictly ascending order.
C4_FilesAscending ==
    \A i \in 1..Len(run.console) :
        LET f == run.files[run.console[i].filename]
        IN f.exists /\ f.lines # <<>> /\ Ascending(Tail(f.lines))

C4_Witness ==
    /\ run.pc = "exit"
    /\ Len(run.console) = 6
    /\ \A i \in 1..6 : Len(run.files[run.console[i].filename].lines) >= 3

Count(s, c) == Cardinality({i \in 1..Len(s) : s[i] = c})

\* The distinct rearrangements of the characters of base.
Rearrangements(base) ==
    {s \in [1..Len(base) -> Range(base)] :
        \A c \in Range(base) : Count(s, c) = Count(base, c)}

RECURSIVE Factorial(_)
Factorial(m) == IF m = 0 THEN 1 ELSE m * Factorial(m - 1)

DistinctChars(base) == Cardinality(Range(base)) = Len(base)

\* C5: generate_permutation_strings(base) returns exactly the distinct
\* rearrangements of base, without duplicates, in ascending order: m! of
\* them when the m characters are distinct (720 for "ABCDEF"), fewer when
\* a character is repeated.
C5_AllRearrangementsOnce ==
    run.pc = "perm_done" =>
        LET m == Len(run.base_string)
        IN /\ Range(run.ret) = Rearrangements(run.base_string)
           /\ Ascending(run.ret)
           /\ NoTwoEqual(run.ret)
           /\ DistinctChars(run.base_string) => Len(run.ret) = Factorial(m)
           /\ ~DistinctChars(run.base_string) => Len(run.ret) < Factorial(m)
           /\ run.base_string = PermBase => Len(run.ret) = 720

C5_Witness ==
    /\ run.pc = "perm_done"
    /\ run.base_string = PermBase
    /\ Len(run.ret) = 720

\* The local state of the generator: what its accept and reject decisions
\* are made from, and what they change.
GenState(s) ==
    <<s.pc, s.fixture, s.alphabet, s.n, s.min_len, s.max_len, s.overlap_prob,
      s.strings, s.current, s.branch, s.overlap_size, s.new_len, s.new_string>>

\* C6: two runs on the same random stream make the same decisions and
\* print and write the same: the generator's state, the returned lists,
\* the notices and every file written so far agree, all six files agree at
\* the end, and every call of the generator starts with no string held.
C6_SameStreamSameFiles ==
    /\ GenState(twin) = GenState(run)
    /\ twin.ret = run.ret
    /\ twin.console = run.console
    /\ \A i \in 1..Len(run.console) :
         twin.files[run.console[i].filename] = run.files[run.console[i].filename]
    /\ run.pc = "exit" =>
         \A f \in FileNames \ {"out.txt"} : run.files[f].exists /\ twin.files[f] = run.files[f]
    /\ run.pc = "gen_first" =>
         run.strings = {} /\ run.current = <<>> /\ run.branch = "none" /\ run.ret = <<>>

\* Both runs are over; they started in different directories.
C6_Witness ==
    /\ run.pc = "exit" /\ twin.pc = "exit"
    /\ twin.files["out.txt"] # run.files["out.txt"]
    /\ Len(run.console) = 6
    /\ twin.files["input_small.txt"] = run.files["input_small.txt"]
    /\ Len(run.files["input_small.txt"].lines) = 3

ExpectedOrder ==
    <<"input_tiny.txt", "input_small.txt", "input_medium.txt",
      "input_large.txt", "input_xlarge.txt", "input_perm720.txt">>

Generating(s) == s.pc \in {"gen_first", "loop", "perm"}

\* C7: the random source is seeded before anything is generated; the files
\* are written once each in the fixed order; while the fixture number i is
\* generated exactly the i files before it are written and its own file is
\* not; no step taken during a generation changes a file or prints.
C7_State ==
    /\ run.pc # "start" => run.seeded
    /\ Len(run.console) <= 6
    /\ Written(run) = SubSeq(ExpectedOrder, 1, Len(run.console))
    /\ run.pc = "exit" => Written(run) = ExpectedOrder
    /\ Generating(run) \/ run.pc \in {"call", "gen_done", "perm_call", "perm_done"} =>
         /\ run.seeded
         /\ Len(run.console) = Min(run.fixture, 5)
         /\ ExpectedOrder[Len(run.console) + 1] \notin Range(Written(run))

C7_SeededThenSixFilesInOrder ==
    /\ []C7_State
    /\ [][Generating(run) => run'.files = run.files /\ run'.console = run.console]_vars
    /\ [][run'.files # run.files =>
            /\ Len(run'.console) = Len(run.console) + 1
            /\ \A f \in FileNames \ {run'.console[Len(run'.console)].filename} :
                 run'.files[f] = run.files[f]]_vars

C7_Witness ==
    /\ run.pc = "exit"
    /\ run.seeded
    /\ Written(run) = ExpectedOrder
    /\ \A i \in 1..6 : run.files[ExpectedOrder[i]].exists

\* C8: when n exceeds the number of distinct strings of the permitted
\* lengths the call never returns and never fails: it stays in its loop
\* with fewer than n strings.
C8_InfeasibleNeverReturns ==
    run.n > Feasible(run) =>
        /\ run.pc \in {"gen_first", "loop"}
        /\ Cardinality(run.strings) < run.n
        /\ Cardinality(run.strings) <= Feasible(run)

\* Every string there is is held, and candidates are still drawn and dropped.
C8_Witness ==
    /\ run.pc = "loop"
    /\ run.n > Feasible(run)
    /\ Cardinality(run.strings) = Feasible(run)
    /\ Feasible(run) >= 3
    /\ run.branch = "overlap"
    /\ run.new_string \in run.strings

\* An iteration of the acceptance loop.
Iteration == run.pc = "loop" /\ run'.pc \in {"loop", "error"} /\ run' # run

\* C9: the overlap branch is taken only after a string of length >= 3, its
\* overlap size k is in 2..min(5, len(previous) - 1), a range that is never
\* empty, and the candidate starts with the last k characters of the
\* previous string; an accepted candidate becomes the previous string, a
\* rejected one (already present) changes neither it nor the accumulator.
C9_Step ==
    Iteration =>
        LET k == run'.overlap_size
            w == run'.new_string
        IN /\ run'.pc # "error"
           /\ run'.branch = "overlap" =>
                /\ Len(run.current) >= 3
                /\ 2 <= k /\ k <= Min(5, Len(run.current) - 1)
                /\ Len(w) >= k
                /\ Prefix(w, k) = Suffix(run.current, k)
           /\ w \notin run.strings =>
                run'.strings = run.strings \cup {w} /\ run'.current = w
           /\ w \in run.strings =>
                run'.strings = run.strings /\ run'.current = run.current

C9_OverlapIteration == [][C9_Step]_vars /\ [](run.pc # "error")

\* The overlap size was capped at 5 (the previous string has 7 characters)
\* and the candidate was rejected.
C9_Witness ==
    /\ run.pc = "loop"
    /\ run.branch = "overlap"
    /\ run.overlap_size = 5
    /\ Len(run.current) = 7
    /\ run.new_string # run.current
    /\ run.new_string \in run.strings

\* The candidates the next iteration can draw.
Candidates(s) ==
    (IF \E r \in RandomVals : TakesOverlap(s, r)
     THEN UNION {{Suffix(s.current, k) \o rest :
                    rest \in Choices(s.alphabet, RestLen(len, k))} :
                 k \in OverlapSizes(s.current), len \in Lengths(s)}
     ELSE {})
    \cup
    (IF \E r \in RandomVals : ~TakesOverlap(s, r)
     THEN UNION {Choices(s.alphabet, len) : len \in Lengths(s)}
     ELSE {})

\* C10: whenever 1 <= n <= the number of distinct strings of the permitted
\* lengths, in every state of the loop that holds fewer than n strings a
\* candidate that will be accepted can still be drawn.
C10_AcceptableCandidateExists ==
    run.pc = "loop" /\ LoopContinues(run) /\ run.n <= Feasible(run) =>
        \E w \in Candidates(run) : Accepts(run, w)

====
